---- MODULE Spec2Model ----
(***************************************************************************)
(* Time-locked commit/reveal: the hello-world encrypt/decrypt component     *)
(* (src/unnamed/part_000) and the rock-paper-scissors game component        *)
(* (src/unnamed/part_001), with the registration / key-release service and  *)
(* the encryption primitive as their environment.                           *)
(*                                                                          *)
(* A handler that awaits is one action per stretch of code between two      *)
(* suspension points.  What a handler reads from React state it reads from  *)
(* the render it was created in, so the values are captured in its call     *)
(* record when it is invoked (the closure), not read when it resumes.       *)
(***************************************************************************)
EXTENDS Integers, Sequences, FiniteSets, Bags, TLC

VARIABLES
    app,                  \* which component is mounted: "hello", "game" or "none"
    now,                  \* Math.floor(Date.now() / 1000)
    input,                \* hello: text of the input field (UTF-8 bytes)
    encryptedMessage,     \* hello
    decryptedMessage,     \* hello
    decryptionTimestamp,  \* hello
    players,              \* game
    encryptionTimestamp,  \* game
    eonKey,               \* game
    result,               \* game
    countdown,            \* both
    identity,             \* both
    error,                \* both
    calls,                \* the invocations of the async handlers that are in flight
    invoked,              \* how many times the user has invoked an async handler
    revealed,             \* the identities a decrypted output has been produced for
    console,              \* the lines the last step has written with console.log
    timers                \* how many interval timers of the countdown effect are set

vars == <<app, now, input, encryptedMessage, decryptedMessage, decryptionTimestamp,
          players, encryptionTimestamp, eonKey, result, countdown, identity, error,
          calls, invoked, revealed, console, timers>>

helloVars == <<input, encryptedMessage, decryptedMessage, decryptionTimestamp>>
gameVars == <<players, encryptionTimestamp, eonKey, result>>

----------------------------------------------------------------------------
(* Bounds of the model *)

\* the clock runs from 0 to MaxNow
MaxNow == 126
\* nothing is observed between second LastEarly and second DECRYPTION_DELAY
LastEarly == 3
\* handler invocations by the user (encrypt, decrypt, submitMove) per session
MaxCalls == 3
\* firings the interval timer may lose while nothing is observed
MaxLate == 0
\* invocations by the user that are in flight at the same time
MaxInFlight == 2

(* Program constants *)

DECRYPTION_DELAY == 120

Null == -1

Texts == {<<>>, <<104, 105>>}
Moves == {"rock", "paper", "scissors"}
\* the options of the select: "Select Move" and the three moves
Options == Moves \cup {""}
\* the options the players pick from in a game session
Picks == {"rock", "paper"}
Players == {"player1", "player2"}

----------------------------------------------------------------------------
(* Strings of hex digits, with or without the 0x marker *)

EmptyString == [prefix |-> FALSE, digits |-> <<>>]
ZeroX == [prefix |-> TRUE, digits |-> <<>>]

\* JavaScript truthiness of a string: !s is true of the empty string only
Falsy(s) == s = EmptyString

ensureHexString(value) ==
    IF value.prefix THEN value ELSE [value EXCEPT !.prefix = TRUE]

RECURSIVE BytesToDigits(_)
BytesToDigits(bytes) ==
    IF bytes = <<>> THEN <<>>
    ELSE <<Head(bytes) \div 16, Head(bytes) % 16>> \o BytesToDigits(Tail(bytes))

RECURSIVE DigitsToBytes(_)
DigitsToBytes(digits) ==
    IF Len(digits) < 2 THEN <<>>
    ELSE <<digits[1] * 16 + digits[2]>> \o DigitsToBytes(Tail(Tail(digits)))

stringToHex(text) == [prefix |-> TRUE, digits |-> BytesToDigits(text)]
hexToString(hex) == DigitsToBytes(hex.digits)

\* what the service answers: a hex string that may or may not carry the marker
Raw(n) == {[prefix |-> p, digits |-> <<n>>] : p \in BOOLEAN}

----------------------------------------------------------------------------
(* The environment: registration / key-release service and the primitive *)

\* the eon key the service hands out
CurrentEon == [prefix |-> TRUE, digits |-> <<1>>]

\* the service derives the identity from the release timestamp it is registered
\* for: the body of a registered identity stands for that timestamp
Registered(id) == Len(id.digits) = 1

ReleaseOf(id) == id.digits[1]

\* the service publishes the key of an identity once its release timestamp has passed
KeyAvailable(id) == Registered(id) /\ now >= ReleaseOf(id)

\* encryptData(msgHex, identityHex, eonKeyHex, sigmaHex): an opaque commitment;
\* `of` remembers what the invocation that made it was given to commit
Commitment(msgHex, identityHex, eonKeyHex, of) ==
    [msg |-> msgHex, identity |-> identityHex, eonKey |-> eonKeyHex, of |-> of]

IsCommitment(c) == "msg" \in DOMAIN c

\* decrypt(commitment, key) of the ideal primitive: the payload, when the key is
\* the key of the identity the commitment was made under; it throws otherwise
Decryptable(c, key) ==
    /\ IsCommitment(c)
    /\ Registered(c.identity)
    /\ c.eonKey = CurrentEon
    /\ key = c.identity

shutterDecrypt(c, key) == c.msg

----------------------------------------------------------------------------
(* Invocations of the async handlers *)

\* a new invocation, suspended at its first await
Invoke(c) == calls (+) SetToBag({c @@ [waited |-> FALSE]})

\* an invocation moving on to its next await
Await(c, pc, locals) ==
    (calls (-) SetToBag({c})) (+) SetToBag({[c EXCEPT !.pc = pc, !.waited = FALSE] @@ locals})

\* the random value of sigmaHex named afresh once the value named k is gone
Renamed(d, k) ==
    IF "sigmaHex" \in DOMAIN d /\ d.sigmaHex.random > k
    THEN [d EXCEPT !.sigmaHex.random = @ - 1]
    ELSE d

\* a handler that has returned or thrown: its locals are gone
Finish(c) ==
    LET rest == calls (-) SetToBag({c})
    IN  IF "sigmaHex" \in DOMAIN c
        THEN [e \in {Renamed(d, c.sigmaHex.random) : d \in DOMAIN rest} |->
                rest[CHOOSE d \in DOMAIN rest : Renamed(d, c.sigmaHex.random) = e]]
        ELSE rest

\* an awaited call (service or primitive) answers at the latest in the second
\* that follows the one it was made in: the clock advances only when no call in
\* flight has waited through a clock step already
Answering == \A c \in DOMAIN calls : ~c.waited

\* the invocations in flight after a clock step taken when Answering
Waiting ==
    [d \in {[c EXCEPT !.waited = TRUE] : c \in DOMAIN calls} |->
        calls[[d EXCEPT !.waited = FALSE]]]

\* the random values held by the invocations in flight
Held == {c.sigmaHex.random : c \in {d \in DOMAIN calls : "sigmaHex" \in DOMAIN d}}

\* a faulty generator that draws once and hands out the value it has kept
generateRandomBytes32Once == [prefix |-> TRUE, random |-> 1]

\* generateRandomBytes32(): 32 bytes of crypto.getRandomValues as a hex
\* string.  A draw differs from every value the program holds; the values
\* held are named 1, 2, ... in the order they were drawn
generateRandomBytes32 == [prefix |-> TRUE, random |-> Cardinality(Held) + 1]

\* console.log(label, value)
Line(label, value) == [label |-> label, value |-> value]

\* the cleanup of the countdown effect: if (timer) clearInterval(timer)
cleanup == IF timers > 0 THEN timers - 1 ELSE timers

\* a faulty countdown effect that returns no cleanup
effectTimersNoCleanup(newCount) ==
    IF newCount = countdown THEN timers
    ELSE timers + (IF newCount # Null /\ newCount > 0 THEN 1 ELSE 0)

\* the interval timers that are set after setCountdown(newCount): when the
\* value changes, the cleanup of the previous run of the effect and then
\* setInterval if the new value is positive
effectTimers(newCount) ==
    IF newCount = countdown THEN timers
    ELSE cleanup + (IF newCount # Null /\ newCount > 0 THEN 1 ELSE 0)

\* the user may invoke another async handler
CanInvoke == invoked < MaxCalls /\ BagCardinality(calls) < MaxInFlight

Init ==
    /\ app \in {"hello", "game"}
    /\ now = 0
    /\ input = <<>>
    /\ encryptedMessage = EmptyString
    /\ decryptedMessage = <<>>
    /\ decryptionTimestamp = Null
    /\ players = [p \in Players |->
                    [move |-> "", encryptedMove |-> EmptyString, submitted |-> FALSE]]
    /\ encryptionTimestamp = Null
    /\ eonKey = ZeroX
    /\ result = ""
    /\ countdown = Null
    /\ identity = IF app = "hello" THEN EmptyString ELSE ZeroX
    /\ error = ""
    /\ calls = EmptyBag
    /\ invoked = 0
    /\ revealed = {}
    /\ console = <<>>
    /\ timers = 0

----------------------------------------------------------------------------
(* hello-world: src/unnamed/part_000 *)

\* the user edits the input field in second 0 or in second LastEarly
setInput(text) ==
    /\ app = "hello"
    /\ now \in {0, LastEarly}
    /\ text # input
    /\ input' = text
    /\ UNCHANGED <<app, now, encryptedMessage, decryptedMessage, decryptionTimestamp,
                   gameVars, countdown, identity, error, calls, invoked, revealed>>
    /\ console' = <<>>
    /\ UNCHANGED timers

\* a faulty encrypt() that registers the current second, without the delay
encryptElapsed ==
    /\ app = "hello"
    /\ CanInvoke
    /\ invoked' = invoked + 1
    /\ error' = ""
    /\ decryptionTimestamp' = now
    /\ countdown' = DECRYPTION_DELAY + 2
    /\ calls' = Invoke([kind |-> "encrypt", pc |-> "fetchShutterData",
                        input |-> input,
                        decryptionTimestamp |-> now])
    /\ console' = <<Line("Fetching encryption data for decryption at timestamp",
                         [number |-> now])>>
    /\ timers' = effectTimers(DECRYPTION_DELAY + 2)
    /\ UNCHANGED <<app, now, input, encryptedMessage, decryptedMessage, gameVars,
                   identity, revealed>>

\* encrypt(), up to the await of fetchShutterData
encrypt ==
    /\ app = "hello"
    /\ CanInvoke
    /\ invoked' = invoked + 1
    /\ error' = ""
    /\ decryptionTimestamp' = now + DECRYPTION_DELAY
    /\ countdown' = DECRYPTION_DELAY + 2
    /\ calls' = Invoke([kind |-> "encrypt", pc |-> "fetchShutterData",
                        input |-> input,
                        decryptionTimestamp |-> now + DECRYPTION_DELAY])
    /\ console' = <<Line("Fetching encryption data for decryption at timestamp",
                         [number |-> now + DECRYPTION_DELAY])>>
    /\ timers' = effectTimers(DECRYPTION_DELAY + 2)
    /\ UNCHANGED <<app, now, input, encryptedMessage, decryptedMessage, gameVars,
                   identity, revealed>>

\* a faulty encrypt() that reads the input field when it resumes
encryptRegisteredLive(c) ==
    /\ c.kind = "encrypt"
    /\ c.pc = "fetchShutterData"
    /\ \E eon_key \in {CurrentEon, [CurrentEon EXCEPT !.prefix = FALSE]},
          id \in Raw(c.decryptionTimestamp) :
          LET eonKeyHex == ensureHexString(eon_key)
              identityHex == ensureHexString(id)
              msgHex == stringToHex(input)
          IN  /\ identity' = identityHex
              /\ calls' = Await(c, "encryptData",
                                [msgHex |-> msgHex, identityHex |-> identityHex,
                                 eonKeyHex |-> eonKeyHex,
                                 sigmaHex |-> generateRandomBytes32])
              /\ console' = <<Line("Eon Key:", eonKeyHex),
                              Line("Identity:", identityHex),
                              Line("Sigma:", generateRandomBytes32)>>
    /\ UNCHANGED <<app, now, helloVars, gameVars, countdown, error, invoked, revealed,
                   timers>>

\* fetchShutterData answers; encrypt() runs on to the await of encryptData
encryptRegistered(c) ==
    /\ c.kind = "encrypt"
    /\ c.pc = "fetchShutterData"
    /\ \E eon_key \in {CurrentEon, [CurrentEon EXCEPT !.prefix = FALSE]},
          id \in Raw(c.decryptionTimestamp) :
          LET eonKeyHex == ensureHexString(eon_key)
              identityHex == ensureHexString(id)
              msgHex == stringToHex(c.input)
          IN  /\ identity' = identityHex
              /\ calls' = Await(c, "encryptData",
                                [msgHex |-> msgHex, identityHex |-> identityHex,
                                 eonKeyHex |-> eonKeyHex,
                                 sigmaHex |-> generateRandomBytes32])
              /\ console' = <<Line("Eon Key:", eonKeyHex),
                              Line("Identity:", identityHex),
                              Line("Sigma:", generateRandomBytes32)>>
    /\ UNCHANGED <<app, now, helloVars, gameVars, countdown, error, invoked, revealed,
                   timers>>

\* fetchShutterData fails: encrypt() has no try, the rejection ends it
encryptRegistrationFailed(c) ==
    /\ c.kind = "encrypt"
    /\ c.pc = "fetchShutterData"
    /\ calls' = Finish(c)
    /\ UNCHANGED <<app, now, helloVars, gameVars, countdown, identity, error, invoked,
                   revealed>>
    /\ console' = <<>>
    /\ UNCHANGED timers

\* encryptData answers
encryptDone(c) ==
    /\ c.kind = "encrypt"
    /\ c.pc = "encryptData"
    /\ encryptedMessage' = Commitment(c.msgHex, c.identityHex, c.eonKeyHex, c.input)
    /\ calls' = Finish(c)
    /\ UNCHANGED <<app, now, input, decryptedMessage, decryptionTimestamp, gameVars,
                   countdown, identity, error, invoked, revealed>>
    /\ console' = <<>>
    /\ UNCHANGED timers

encryptDataFailed(c) ==
    /\ c.kind = "encrypt"
    /\ c.pc = "encryptData"
    /\ calls' = Finish(c)
    /\ UNCHANGED <<app, now, helloVars, gameVars, countdown, identity, error, invoked,
                   revealed>>
    /\ console' = <<>>
    /\ UNCHANGED timers

\* a faulty readiness test, without the 5 second margin
isReadyNoMargin(timestamp, currentTime) ==
    ~(timestamp = Null \/ timestamp = 0 \/ currentTime < timestamp)

\* a faulty readiness test that is one second late
isReadyOneLate(timestamp, currentTime) ==
    ~(timestamp = Null \/ timestamp = 0 \/ currentTime <= timestamp + 5)

\* the readiness test of decrypt() and decryptMoves(); !timestamp is true of
\* null and of 0
isReady(timestamp, currentTime) ==
    ~(timestamp = Null \/ timestamp = 0 \/ currentTime < timestamp + 5)

\* a faulty decrypt() without the returns after its two rejections
decryptNoReturn ==
    /\ app = "hello"
    /\ CanInvoke
    /\ invoked' = invoked + 1
    /\ error' = IF Falsy(identity)
                THEN "No identity available. Please encrypt a message first."
                ELSE IF ~isReady(decryptionTimestamp, now)
                THEN "Please wait before decryption key is available"
                ELSE ""
    /\ calls' = Invoke([kind |-> "decrypt", pc |-> "fetchDecryptionKey",
                        identity |-> identity,
                        encryptedMessage |-> encryptedMessage,
                        at |-> now])
    /\ UNCHANGED <<app, now, helloVars, gameVars, countdown, identity, revealed>>
    /\ console' = <<>>
    /\ UNCHANGED timers

\* decrypt(), up to the await of fetchDecryptionKey
decrypt ==
    /\ app = "hello"
    /\ IF Falsy(identity)
       THEN /\ error' = "No identity available. Please encrypt a message first."
            /\ UNCHANGED <<calls, invoked>>
       ELSE IF ~isReady(decryptionTimestamp, now)
       THEN /\ error' = "Please wait before decryption key is available"
            /\ UNCHANGED <<calls, invoked>>
       ELSE /\ CanInvoke
            /\ invoked' = invoked + 1
            /\ error' = ""
            /\ calls' = Invoke([kind |-> "decrypt", pc |-> "fetchDecryptionKey",
                                identity |-> identity,
                                encryptedMessage |-> encryptedMessage,
                                at |-> now])
    /\ UNCHANGED <<app, now, helloVars, gameVars, countdown, identity, revealed>>
    /\ console' = <<>>
    /\ UNCHANGED timers

\* fetchDecryptionKey answers with the key; decrypt() runs on to the await of shutterDecrypt
decryptKeyFetched(c) ==
    /\ c.kind = "decrypt"
    /\ c.pc = "fetchDecryptionKey"
    /\ KeyAvailable(c.identity)
    /\ \E decryption_key \in Raw(ReleaseOf(c.identity)) :
          /\ calls' = Await(c, "shutterDecrypt",
                            [decryptionKey |-> ensureHexString(decryption_key)])
          /\ console' = <<Line("Decryption key:", decryption_key)>>
    /\ UNCHANGED <<app, now, helloVars, gameVars, countdown, identity, error, invoked,
                   revealed, timers>>

\* a faulty catch block that shows the message of the error it has caught
decryptKeyFetchFailedMessage(c) ==
    /\ c.kind = "decrypt"
    /\ c.pc = "fetchDecryptionKey"
    /\ error' = "Request failed with status code 404"
    /\ calls' = Finish(c)
    /\ UNCHANGED <<app, now, helloVars, gameVars, countdown, identity, invoked,
                   revealed>>
    /\ console' = <<>>
    /\ UNCHANGED timers

\* fetchDecryptionKey fails (key not published yet, or transport): the catch block
decryptKeyFetchFailed(c) ==
    /\ c.kind = "decrypt"
    /\ c.pc = "fetchDecryptionKey"
    /\ error' = "Failed to decrypt message. Please try again."
    /\ calls' = Finish(c)
    /\ UNCHANGED <<app, now, helloVars, gameVars, countdown, identity, invoked,
                   revealed>>
    /\ console' = <<>>
    /\ UNCHANGED timers

\* shutterDecrypt answers, or throws into the catch block
decryptDone(c) ==
    /\ c.kind = "decrypt"
    /\ c.pc = "shutterDecrypt"
    /\ IF Decryptable(c.encryptedMessage, c.decryptionKey)
       THEN /\ decryptedMessage' =
                  hexToString(shutterDecrypt(c.encryptedMessage, c.decryptionKey))
            /\ revealed' = revealed \cup {c.identity}
            /\ UNCHANGED error
       ELSE /\ error' = "Failed to decrypt message. Please try again."
            /\ UNCHANGED <<decryptedMessage, revealed>>
    /\ calls' = Finish(c)
    /\ UNCHANGED <<app, now, input, encryptedMessage, decryptionTimestamp, gameVars,
                   countdown, identity, invoked>>
    /\ console' = <<>>
    /\ UNCHANGED timers

----------------------------------------------------------------------------
(* rock-paper-scissors: src/unnamed/part_001 *)

\* the players use the selects in second 0 or in second LastEarly
handleMoveChange(player, move) ==
    /\ app = "game"
    /\ now \in {0, LastEarly}
    /\ move # players[player].move
    /\ players' = [players EXCEPT ![player].move = move]
    /\ UNCHANGED <<app, now, helloVars, encryptionTimestamp, eonKey, result, countdown,
                   identity, error, calls, invoked, revealed>>
    /\ console' = <<>>
    /\ UNCHANGED timers

\* a faulty determineWinner with a wrong entry in winningCombinations
determineWinnerWrongEntry(move1, move2) ==
    IF move1 = move2 THEN "It's a tie!"
    ELSE LET winningCombinations ==
                 [rock |-> "scissors", paper |-> "rock", scissors |-> "rock"]
         IN  IF winningCombinations[move1] = move2
             THEN "Player 1 wins!"
             ELSE "Player 2 wins!"

\* a faulty determineWinner that never lets player 2 win
determineWinnerFirstOnly(move1, move2) ==
    IF move1 = move2 THEN "It's a tie!"
    ELSE "Player 1 wins!"

determineWinner(move1, move2) ==
    IF move1 = move2 THEN "It's a tie!"
    ELSE LET winningCombinations ==
                 [rock |-> "scissors", paper |-> "rock", scissors |-> "paper"]
         IN  IF winningCombinations[move1] = move2
             THEN "Player 1 wins!"
             ELSE "Player 2 wins!"

\* TextEncoder / TextDecoder on the three move names
Utf8(move) ==
    CASE move = "" -> <<>>
      [] move = "rock" -> <<114, 111, 99, 107>>
      [] move = "paper" -> <<112, 97, 112, 101, 114>>
      [] move = "scissors" -> <<115, 99, 105, 115, 115, 111, 114, 115>>

FromUtf8(bytes) == CHOOSE move \in Moves : Utf8(move) = bytes

\* a faulty submitMove() that registers as long as no identity has been stored
submitMoveUntilIdentity(player) ==
    /\ app = "game"
    /\ now \in {0, LastEarly}
    /\ ~players[player].submitted
    /\ IF players[player].move = ""
       THEN /\ error' = IF player = "player1"
                        THEN "Please select a move for player1"
                        ELSE "Please select a move for player2"
            /\ console' = <<>>
            /\ UNCHANGED <<encryptionTimestamp, calls, invoked>>
       ELSE /\ CanInvoke
            /\ invoked' = invoked + 1
            /\ error' = ""
            /\ IF identity = ZeroX
               THEN /\ encryptionTimestamp' = now + DECRYPTION_DELAY
                    /\ calls' = Invoke(
                          [kind |-> "submitMove", pc |-> "fetchShutterData",
                           player |-> player, move |-> players[player].move,
                           decryptionTimestamp |-> now + DECRYPTION_DELAY])
                    /\ console' = <<Line("Fetching encryption data for decryption at timestamp",
                                         [number |-> now + DECRYPTION_DELAY])>>
               ELSE /\ UNCHANGED encryptionTimestamp
                    /\ calls' = Invoke(
                          [kind |-> "submitMove", pc |-> "encryptData",
                           player |-> player, move |-> players[player].move,
                           msgHex |-> stringToHex(Utf8(players[player].move)),
                           identityHexHolder |-> identity,
                           eonKeyHexHolder |-> eonKey,
                           sigmaHex |-> generateRandomBytes32])
                    /\ console' = <<>>
    /\ UNCHANGED <<app, now, helloVars, players, eonKey, result, countdown, identity,
                   revealed, timers>>

\* a faulty submitMove() without the return after the missing-move error
submitMoveNoReturn(player) ==
    /\ app = "game"
    /\ now \in {0, LastEarly}
    /\ ~players[player].submitted
    /\ CanInvoke
    /\ invoked' = invoked + 1
    /\ error' = IF players[player].move # "" THEN ""
                ELSE IF player = "player1"
                THEN "Please select a move for player1"
                ELSE "Please select a move for player2"
    /\ IF encryptionTimestamp = Null
       THEN /\ encryptionTimestamp' = now + DECRYPTION_DELAY
            /\ calls' = Invoke(
                  [kind |-> "submitMove", pc |-> "fetchShutterData",
                   player |-> player, move |-> players[player].move,
                   decryptionTimestamp |-> now + DECRYPTION_DELAY])
            /\ console' = <<Line("Fetching encryption data for decryption at timestamp",
                                 [number |-> now + DECRYPTION_DELAY])>>
       ELSE /\ UNCHANGED encryptionTimestamp
            /\ calls' = Invoke(
                  [kind |-> "submitMove", pc |-> "encryptData",
                   player |-> player, move |-> players[player].move,
                   msgHex |-> stringToHex(Utf8(players[player].move)),
                   identityHexHolder |-> identity,
                   eonKeyHexHolder |-> eonKey,
                   sigmaHex |-> generateRandomBytes32])
            /\ console' = <<>>
    /\ UNCHANGED <<app, now, helloVars, players, eonKey, result, countdown, identity,
                   revealed, timers>>

\* submitMove(player), up to its first await: of fetchShutterData for the first
\* submission, of encryptData for the others.  The button is enabled while the
\* player has not submitted; the players click it in second 0 or LastEarly.
submitMove(player) ==
    /\ app = "game"
    /\ now \in {0, LastEarly}
    /\ ~players[player].submitted
    /\ IF players[player].move = ""
       THEN /\ error' = IF player = "player1"
                        THEN "Please select a move for player1"
                        ELSE "Please select a move for player2"
            /\ console' = <<>>
            /\ UNCHANGED <<encryptionTimestamp, calls, invoked>>
       ELSE /\ CanInvoke
            /\ invoked' = invoked + 1
            /\ error' = ""
            /\ IF encryptionTimestamp = Null
               THEN /\ encryptionTimestamp' = now + DECRYPTION_DELAY
                    /\ calls' = Invoke(
                          [kind |-> "submitMove", pc |-> "fetchShutterData",
                           player |-> player, move |-> players[player].move,
                           decryptionTimestamp |-> now + DECRYPTION_DELAY])
                    /\ console' = <<Line("Fetching encryption data for decryption at timestamp",
                                         [number |-> now + DECRYPTION_DELAY])>>
               ELSE /\ UNCHANGED encryptionTimestamp
                    /\ calls' = Invoke(
                          [kind |-> "submitMove", pc |-> "encryptData",
                           player |-> player, move |-> players[player].move,
                           msgHex |-> stringToHex(Utf8(players[player].move)),
                           identityHexHolder |-> identity,
                           eonKeyHexHolder |-> eonKey,
                           sigmaHex |-> generateRandomBytes32])
                    /\ console' = <<>>
    /\ UNCHANGED <<app, now, helloVars, players, eonKey, result, countdown, identity,
                   revealed, timers>>

\* a faulty submitMove() that reads the selection when it resumes
submitMoveRegisteredLive(c) ==
    /\ c.kind = "submitMove"
    /\ c.pc = "fetchShutterData"
    /\ \E eon_key \in {CurrentEon, [CurrentEon EXCEPT !.prefix = FALSE]},
          id \in Raw(c.decryptionTimestamp) :
          LET identityHex == ensureHexString(id)
              eonKeyHex == ensureHexString(eon_key)
          IN  /\ identity' = identityHex
              /\ eonKey' = eonKeyHex
              /\ calls' = Await(c, "encryptData",
                                [msgHex |-> stringToHex(Utf8(players[c.player].move)),
                                 identityHexHolder |-> identityHex,
                                 eonKeyHexHolder |-> eonKeyHex,
                                 sigmaHex |-> generateRandomBytes32])
    /\ console' = <<>>
    /\ UNCHANGED <<app, now, helloVars, players, encryptionTimestamp, result, countdown,
                   error, invoked, revealed, timers>>

\* fetchShutterData answers; submitMove() runs on to the await of encryptData
submitMoveRegistered(c) ==
    /\ c.kind = "submitMove"
    /\ c.pc = "fetchShutterData"
    /\ \E eon_key \in {CurrentEon, [CurrentEon EXCEPT !.prefix = FALSE]},
          id \in Raw(c.decryptionTimestamp) :
          LET identityHex == ensureHexString(id)
              eonKeyHex == ensureHexString(eon_key)
          IN  /\ identity' = identityHex
              /\ eonKey' = eonKeyHex
              /\ calls' = Await(c, "encryptData",
                                [msgHex |-> stringToHex(Utf8(c.move)),
                                 identityHexHolder |-> identityHex,
                                 eonKeyHexHolder |-> eonKeyHex,
                                 sigmaHex |-> generateRandomBytes32])
    /\ console' = <<>>
    /\ UNCHANGED <<app, now, helloVars, players, encryptionTimestamp, result, countdown,
                   error, invoked, revealed, timers>>

\* a faulty submitMove() that swallows the rejection and goes on to encryptData
submitMoveRegistrationSwallowed(c) ==
    /\ c.kind = "submitMove"
    /\ c.pc = "fetchShutterData"
    /\ calls' = Await(c, "encryptData",
                      [msgHex |-> stringToHex(Utf8(c.move)),
                       identityHexHolder |-> identity,
                       eonKeyHexHolder |-> eonKey,
                       sigmaHex |-> generateRandomBytes32])
    /\ console' = <<>>
    /\ UNCHANGED <<app, now, helloVars, gameVars, countdown, identity, error, invoked,
                   revealed, timers>>

\* fetchShutterData fails: submitMove() has no try, the rejection ends it
submitMoveRegistrationFailed(c) ==
    /\ c.kind = "submitMove"
    /\ c.pc = "fetchShutterData"
    /\ calls' = Finish(c)
    /\ UNCHANGED <<app, now, helloVars, gameVars, countdown, identity, error, invoked,
                   revealed>>
    /\ console' = <<>>
    /\ UNCHANGED timers

\* a faulty updater that starts the countdown at the first submission
submitMoveDoneEither(c) ==
    /\ c.kind = "submitMove"
    /\ c.pc = "encryptData"
    /\ LET encryptedMove == Commitment(c.msgHex, c.identityHexHolder,
                                       c.eonKeyHexHolder, c.move)
           newState == [players EXCEPT ![c.player] =
                           [@ EXCEPT !.encryptedMove = encryptedMove,
                                     !.submitted = TRUE]]
       IN  /\ players' = newState
           /\ IF newState.player1.submitted \/ newState.player2.submitted
              THEN /\ console' = <<Line("Both players submitted, starting countdown",
                                        EmptyString)>>
                   /\ countdown' = DECRYPTION_DELAY + 2
                   /\ timers' = effectTimers(DECRYPTION_DELAY + 2)
              ELSE /\ console' = <<>>
                   /\ UNCHANGED <<countdown, timers>>
    /\ calls' = Finish(c)
    /\ UNCHANGED <<app, now, helloVars, encryptionTimestamp, eonKey, result, identity,
                   error, invoked, revealed>>

\* encryptData answers: the setPlayers updater, which starts the countdown
submitMoveDone(c) ==
    /\ c.kind = "submitMove"
    /\ c.pc = "encryptData"
    /\ LET encryptedMove == Commitment(c.msgHex, c.identityHexHolder,
                                       c.eonKeyHexHolder, c.move)
           newState == [players EXCEPT ![c.player] =
                           [@ EXCEPT !.encryptedMove = encryptedMove,
                                     !.submitted = TRUE]]
       IN  /\ players' = newState
           /\ IF newState.player1.submitted /\ newState.player2.submitted
              THEN /\ console' = <<Line("Both players submitted, starting countdown",
                                        EmptyString)>>
                   /\ countdown' = DECRYPTION_DELAY + 2
                   /\ timers' = effectTimers(DECRYPTION_DELAY + 2)
              ELSE /\ console' = <<>>
                   /\ UNCHANGED <<countdown, timers>>
    /\ calls' = Finish(c)
    /\ UNCHANGED <<app, now, helloVars, encryptionTimestamp, eonKey, result, identity,
                   error, invoked, revealed>>

submitMoveEncryptFailed(c) ==
    /\ c.kind = "submitMove"
    /\ c.pc = "encryptData"
    /\ calls' = Finish(c)
    /\ UNCHANGED <<app, now, helloVars, gameVars, countdown, identity, error, invoked,
                   revealed>>
    /\ console' = <<>>
    /\ UNCHANGED timers

\* decryptMoves(), up to the await of fetchDecryptionKey, called by the countdown
\* effect after a clock step, at currentTime
decryptMoves(currentTime) ==
    IF Falsy(identity)
    THEN /\ error' = "No identity available. Please try submitting moves again."
         /\ calls' = Waiting
    ELSE IF ~isReady(encryptionTimestamp, currentTime)
    THEN /\ error' = "Please wait before decryption key is available"
         /\ calls' = Waiting
    ELSE /\ calls' = Waiting (+) SetToBag({
                      [kind |-> "decryptMoves", pc |-> "fetchDecryptionKey",
                       identity |-> identity,
                       encryptedMove1 |-> players.player1.encryptedMove,
                       encryptedMove2 |-> players.player2.encryptedMove,
                       at |-> currentTime, waited |-> FALSE]})
         /\ UNCHANGED error

decryptMovesKeyFetched(c) ==
    /\ c.kind = "decryptMoves"
    /\ c.pc = "fetchDecryptionKey"
    /\ KeyAvailable(c.identity)
    /\ \E decryption_key \in Raw(ReleaseOf(c.identity)) :
          calls' = Await(c, "shutterDecrypt1",
                         [decryptionKey |-> ensureHexString(decryption_key)])
    /\ UNCHANGED <<app, now, helloVars, gameVars, countdown, identity, error, invoked,
                   revealed>>
    /\ console' = <<>>
    /\ UNCHANGED timers

decryptMovesKeyFetchFailed(c) ==
    /\ c.kind = "decryptMoves"
    /\ c.pc = "fetchDecryptionKey"
    /\ error' = "Failed to decrypt moves. Please try again."
    /\ calls' = Finish(c)
    /\ UNCHANGED <<app, now, helloVars, gameVars, countdown, identity, invoked,
                   revealed>>
    /\ console' = <<>>
    /\ UNCHANGED timers

\* the first shutterDecrypt answers, or throws into the catch block
decryptMovesFirst(c) ==
    /\ c.kind = "decryptMoves"
    /\ c.pc = "shutterDecrypt1"
    /\ IF Decryptable(c.encryptedMove1, c.decryptionKey)
       THEN /\ calls' = Await(c, "shutterDecrypt2",
                  [decryptedMove1 |->
                      FromUtf8(hexToString(shutterDecrypt(c.encryptedMove1,
                                                          c.decryptionKey)))])
            /\ UNCHANGED error
       ELSE /\ error' = "Failed to decrypt moves. Please try again."
            /\ calls' = Finish(c)
    /\ UNCHANGED <<app, now, helloVars, gameVars, countdown, identity, invoked,
                   revealed>>
    /\ console' = <<>>
    /\ UNCHANGED timers

\* the second shutterDecrypt answers, or throws; determineWinner and setResult
decryptMovesDone(c) ==
    /\ c.kind = "decryptMoves"
    /\ c.pc = "shutterDecrypt2"
    /\ IF Decryptable(c.encryptedMove2, c.decryptionKey)
       THEN LET decryptedMove2 ==
                    FromUtf8(hexToString(shutterDecrypt(c.encryptedMove2,
                                                        c.decryptionKey)))
            IN  /\ result' = determineWinner(c.decryptedMove1, decryptedMove2)
                /\ revealed' = revealed \cup {c.identity}
                /\ UNCHANGED error
       ELSE /\ error' = "Failed to decrypt moves. Please try again."
            /\ UNCHANGED <<result, revealed>>
    /\ calls' = Finish(c)
    /\ UNCHANGED <<app, now, helloVars, players, encryptionTimestamp, eonKey, countdown,
                   identity, invoked>>
    /\ console' = <<>>
    /\ UNCHANGED timers

----------------------------------------------------------------------------
(* The clock and the countdown effect of both components *)

\* seconds to the next instant the model observes
ClockStep == IF now = LastEarly THEN DECRYPTION_DELAY - LastEarly ELSE 1

\* firings an active interval timer may lose in the clock step (a delayed or
\* throttled timer): none in a step of one second
Lost == IF ClockStep = 1 THEN {0} ELSE 0..MaxLate

\* the condition under which the countdown effect sets its interval timer
TimerActive == countdown # Null /\ countdown > 0

\* the body of the useEffect on [countdown], run for the render that follows a
\* change of countdown to newCount: the game calls decryptMoves() at 0
countdownEffect(newCount, currentTime) ==
    IF app = "game" /\ newCount = 0
    THEN decryptMoves(currentTime)
    ELSE calls' = Waiting /\ UNCHANGED error

\* ClockStep seconds pass; every interval timer that is set fires once a
\* second, each firing being setCountdown(prev => prev !== null ? prev - 1 : null),
\* and the effect runs again for the new value
clockAdvance ==
    /\ now + ClockStep <= MaxNow
    /\ Answering
    /\ now' = now + ClockStep
    /\ IF timers > 0 /\ countdown # Null
       THEN \E lost \in Lost :
              LET newCount == countdown - timers * (ClockStep - lost)
              IN  /\ newCount >= 0
                  /\ countdown' = newCount
                  /\ timers' = effectTimers(newCount)
                  /\ countdownEffect(newCount, now + ClockStep)
       ELSE calls' = Waiting /\ UNCHANGED <<countdown, error, timers>>
    /\ console' = <<>>
    /\ UNCHANGED <<app, helloVars, gameVars, identity, invoked, revealed>>

\* the component is unmounted: React runs the cleanup of the countdown effect
\* and discards the state; what the handlers in flight set afterwards reaches
\* no component
unmount ==
    /\ app # "none"
    /\ app' = "none"
    /\ timers' = cleanup
    /\ input' = <<>>
    /\ encryptedMessage' = EmptyString
    /\ decryptedMessage' = <<>>
    /\ decryptionTimestamp' = Null
    /\ players' = [p \in Players |->
                     [move |-> "", encryptedMove |-> EmptyString, submitted |-> FALSE]]
    /\ encryptionTimestamp' = Null
    /\ eonKey' = ZeroX
    /\ result' = ""
    /\ countdown' = Null
    /\ identity' = EmptyString
    /\ error' = ""
    /\ calls' = EmptyBag
    /\ console' = <<>>
    /\ UNCHANGED <<now, invoked, revealed>>

HelloNext ==
    \/ \E text \in Texts : setInput(text)
    \/ encrypt
    \/ decrypt
    \/ \E c \in DOMAIN calls : encryptRegistered(c)
    \/ \E c \in DOMAIN calls : encryptRegistrationFailed(c)
    \/ \E c \in DOMAIN calls : encryptDone(c)
    \/ \E c \in DOMAIN calls : encryptDataFailed(c)
    \/ \E c \in DOMAIN calls : decryptKeyFetched(c)
    \/ \E c \in DOMAIN calls : decryptKeyFetchFailed(c)
    \/ \E c \in DOMAIN calls : decryptDone(c)

GameNext ==
    \/ \E player \in Players, move \in Picks : handleMoveChange(player, move)
    \/ \E player \in Players : submitMove(player)
    \/ \E c \in DOMAIN calls : submitMoveRegistered(c)
    \/ \E c \in DOMAIN calls : submitMoveRegistrationFailed(c)
    \/ \E c \in DOMAIN calls : submitMoveDone(c)
    \/ \E c \in DOMAIN calls : submitMoveEncryptFailed(c)
    \/ \E c \in DOMAIN calls : decryptMovesKeyFetched(c)
    \/ \E c \in DOMAIN calls : decryptMovesKeyFetchFailed(c)
    \/ \E c \in DOMAIN calls : decryptMovesFirst(c)
    \/ \E c \in DOMAIN calls : decryptMovesDone(c)

Next == HelloNext \/ GameNext \/ clockAdvance

Spec == Init /\ [][Next]_vars

\* a session that may end with the component being unmounted
TeardownSpec == Init /\ [][Next \/ unmount]_vars

\* determineWinner on its own: the two selects take any of their options and
\* the function is applied to the selection, MaxCalls times at most
applyDetermineWinner ==
    /\ app = "game"
    /\ players.player1.move # ""
    /\ players.player2.move # ""
    /\ invoked < MaxCalls
    /\ invoked' = invoked + 1
    /\ result' = determineWinner(players.player1.move, players.player2.move)
    /\ UNCHANGED <<app, now, helloVars, players, encryptionTimestamp, eonKey, countdown,
                   identity, error, calls, revealed>>
    /\ console' = <<>>
    /\ UNCHANGED timers

WinnerNext ==
    \/ \E player \in Players, move \in Options : handleMoveChange(player, move)
    \/ applyDetermineWinner

\* one component at a time
HelloInit == Init /\ app = "hello"

HelloSpec == HelloInit /\ [][HelloNext \/ clockAdvance]_vars

GameInit == Init /\ app = "game"

GameSpec == GameInit /\ [][GameNext \/ clockAdvance]_vars

WinnerSpec == GameInit /\ [][WinnerNext]_vars

----------------------------------------------------------------------------
(* Properties *)

NotReadyError == "Please wait before decryption key is available"

BothSubmitted == players.player1.submitted /\ players.player2.submitted

\* the invocations in flight that have called fetchDecryptionKey and await its answer
KeyFetches == {c \in DOMAIN calls : c.pc = "fetchDecryptionKey"}

\* the invocations of decryptMoves() in flight
Reveals == {c \in DOMAIN calls : c.kind = "decryptMoves"}

\* C1: in both components, fetchDecryptionKey is never called for an identity
\* at a second earlier than R + 5, R being the release timestamp the identity
\* was registered for, whatever the interleaving of the handlers.
C1_NoEarlyKeyFetch ==
    \A c \in KeyFetches :
        Registered(c.identity) => c.at >= ReleaseOf(c.identity) + 5

\* a key fetch made in the very second R + 5
C1_Witness ==
    \E c \in KeyFetches :
        Registered(c.identity) /\ c.at = ReleaseOf(c.identity) + 5

\* C2: in the game, no invocation of decryptMoves() (fetchDecryptionKey, then
\* shutterDecrypt twice) is under way unless both players have submitted.
C2_NoRevealBeforeBothSubmitted ==
    Reveals # {} => BothSubmitted

\* a reveal that has fetched the key and decrypted the first move
C2_Witness ==
    \E c \in Reveals : c.pc = "shutterDecrypt2"

DecryptFailedError == "Failed to decrypt moves. Please try again."

\* the identity the service returns for the release timestamp of the game session
SessionIdentity == [prefix |-> TRUE, digits |-> <<encryptionTimestamp>>]

\* C3: in the game, every encryptData call of the session is made with the
\* (identity, eonKey) pair that the session's fetchShutterData call returned,
\* also when a player submits while the registration is still in flight.
C3_SharedRegisteredPair ==
    \A c \in DOMAIN calls :
        (c.kind = "submitMove" /\ c.pc = "encryptData")
            => /\ c.identityHexHolder = SessionIdentity
               /\ c.eonKeyHexHolder = CurrentEon

\* C4: in the game, when registration, encryptions, key fetch and decryptions
\* all succeed, the result is set without user action once both players have
\* submitted and the countdown has finished, however far apart the two
\* submissions were: by the end of the session, with the key published for
\* five seconds or more and nothing left in flight, the result is there.
C4_ResultSetAutomatically ==
    ( /\ app = "game"
      /\ now = MaxNow
      /\ BothSubmitted
      /\ countdown = 0
      /\ calls = EmptyBag
      /\ Decryptable(players.player1.encryptedMove, identity)
      /\ Decryptable(players.player2.encryptedMove, identity)
      /\ isReady(encryptionTimestamp, now)
      /\ error # DecryptFailedError )
        => result # ""

\* C5: in hello-world, after a successful encrypt, decrypt() invoked while the
\* countdown is at 0 passes the readiness test: it does not answer
\* "Please wait before decryption key is available".
C5_DecryptAtZeroIsReady ==
    [][(decrypt /\ countdown = 0 /\ IsCommitment(encryptedMessage))
          => error' # NotReadyError]_vars

\* C6: in the game, after a reveal attempt that found the key not yet
\* available, a clock tick at which the key is available makes a further
\* reveal attempt, without user action.
C6_RetriesWhenKeyAvailable ==
    [][( /\ app = "game"
         /\ now' > now
         /\ BothSubmitted
         /\ error = NotReadyError
         /\ result = ""
         /\ Reveals = {}
         /\ isReady(encryptionTimestamp, now') )
          => \E c \in DOMAIN calls' : c.kind = "decryptMoves"]_vars

\* C7: a reveal attempted before R + 5 never surfaces in the error field, in
\* either component.
C7_NotReadyIsNoError ==
    [][( \/ decrypt /\ ~Falsy(identity) /\ ~isReady(decryptionTimestamp, now)
         \/ /\ app = "game"
            /\ now' > now
            /\ countdown # 0
            /\ countdown' = 0
            /\ ~isReady(encryptionTimestamp, now') )
          => error' # NotReadyError]_vars

\* C8: once a decrypted message or a game result has been produced for an
\* identity, no step issues another fetchDecryptionKey call for that identity.
C8_KeyFetchedOncePerIdentity ==
    [][\A c \in DOMAIN calls' :
          (c.pc = "fetchDecryptionKey" /\ ~c.waited
              /\ CopiesIn(c, calls') > CopiesIn(c, calls))
            => c.identity \notin revealed]_vars

\* C9: in hello-world, a decrypt() that fetched the key and decrypts the
\* commitment sets decryptedMessage to the text that was in the input field
\* when the encrypt() that made the commitment was invoked.
C9_DecryptedIsTextAtEncrypt ==
    [][\A c \in DOMAIN calls :
          (decryptDone(c) /\ Decryptable(c.encryptedMessage, c.decryptionKey))
            => decryptedMessage' = c.encryptedMessage.of]_vars

\* a message decrypted after the input field was edited
C9_Witness ==
    /\ decryptedMessage # <<>>
    /\ IsCommitment(encryptedMessage)
    /\ decryptedMessage = encryptedMessage.of
    /\ input # decryptedMessage

\* C10: in the game, the result that is set is determineWinner(m1, m2), m1 and
\* m2 being the moves selected when the submitMove() of each player was
\* invoked; later changes of the selection do not affect it.
C10_ResultOfSubmittedMoves ==
    [][\A c \in DOMAIN calls :
          (decryptMovesDone(c) /\ Decryptable(c.encryptedMove2, c.decryptionKey))
            => result' = determineWinner(c.encryptedMove1.of, c.encryptedMove2.of)]_vars

\* a result set after player1 changed the selection that was submitted
C10_Witness ==
    /\ result # ""
    /\ players.player1.move # players.player1.encryptedMove.of
    /\ result = determineWinner(players.player1.encryptedMove.of,
                                players.player2.encryptedMove.of)
    /\ result # determineWinner(players.player1.move, players.player2.move)

\* the beats relation of the game
Beats == {<<"rock", "scissors">>, <<"scissors", "paper">>, <<"paper", "rock">>}

\* C11: determineWinner is total over the 9 ordered pairs of moves: a tie
\* exactly when the moves are equal, "Player 1 wins!" exactly when move1 beats
\* move2 (rock beats scissors, scissors beats paper, paper beats rock), and
\* "Player 2 wins!" otherwise.
C11_DetermineWinnerByBeats ==
    [][applyDetermineWinner =>
          LET move1 == players.player1.move
              move2 == players.player2.move
          IN  /\ result' \in {"It's a tie!", "Player 1 wins!", "Player 2 wins!"}
              /\ result' = "It's a tie!" <=> move1 = move2
              /\ result' = "Player 1 wins!" <=> <<move1, move2>> \in Beats
              /\ result' = "Player 2 wins!" <=> <<move2, move1>> \in Beats]_vars

\* scissors against rock judged: player 2 wins
C11_Witness ==
    /\ players.player1.move = "scissors"
    /\ players.player2.move = "rock"
    /\ result = "Player 2 wins!"
    /\ encryptionTimestamp = Null

\* C12: swapping the two moves swaps the declared winner, and a tie stays a tie.
C12_SwapSwapsWinner ==
    [][applyDetermineWinner =>
          LET swapped == determineWinner(players.player2.move, players.player1.move)
          IN  /\ result' = "Player 1 wins!" <=> swapped = "Player 2 wins!"
              /\ result' = "Player 2 wins!" <=> swapped = "Player 1 wins!"
              /\ result' = "It's a tie!" <=> swapped = "It's a tie!"]_vars

\* paper against scissors judged, which swapped is a win of player 1
C12_Witness ==
    /\ players.player1.move = "paper"
    /\ players.player2.move = "scissors"
    /\ result = "Player 2 wins!"
    /\ determineWinner("scissors", "paper") = "Player 1 wins!"
    /\ encryptionTimestamp = Null

\* C13: the readiness test of decrypt() and decryptMoves() is now >= R + 5 on
\* whole seconds: with an identity and a release timestamp R stored, the
\* invocation goes on to fetchDecryptionKey when now >= R + 5, and is rejected
\* without a fetch when now < R + 5.
C13_ReadinessIsRPlus5 ==
    [][/\ (decrypt /\ ~Falsy(identity) /\ decryptionTimestamp # Null)
            => /\ (\E c \in KeyFetches' : CopiesIn(c, calls') > CopiesIn(c, calls))
                     <=> now >= decryptionTimestamp + 5
               /\ calls' = calls <=> now < decryptionTimestamp + 5
               /\ error' = NotReadyError <=> now < decryptionTimestamp + 5
       /\ ( /\ app = "game"
            /\ now' > now
            /\ countdown # 0
            /\ countdown' = 0
            /\ ~Falsy(identity)
            /\ encryptionTimestamp # Null )
            => /\ (\E c \in KeyFetches' : c.kind = "decryptMoves" /\ ~c.waited)
                     <=> now' >= encryptionTimestamp + 5
               /\ error' = NotReadyError <=> now' < encryptionTimestamp + 5]_vars

\* the game's reveal going on to the key fetch in the very second R + 5
C13_Witness ==
    \E c \in Reveals :
        /\ c.pc = "fetchDecryptionKey"
        /\ ~c.waited
        /\ c.at = encryptionTimestamp + 5
        /\ now = c.at

\* a step that calls fetchShutterData
RegistrationIssued ==
    \E c \in DOMAIN calls' :
        /\ c.pc = "fetchShutterData"
        /\ ~c.waited
        /\ CopiesIn(c, calls') > CopiesIn(c, calls)

\* C14: in the game, fetchShutterData is called at most once and
\* encryptionTimestamp is assigned at most once per session: the call is made
\* only while encryptionTimestamp is unset, by the step that sets it, and once
\* set it neither changes nor lets another registration be made.
C14_RegistersOnce ==
    [][app = "game" =>
          /\ RegistrationIssued
                => encryptionTimestamp = Null /\ encryptionTimestamp' # Null
          /\ encryptionTimestamp # Null
                => encryptionTimestamp' = encryptionTimestamp /\ ~RegistrationIssued]_vars

\* a player has clicked Submit again while the registration is in flight
C14_Witness ==
    \E c, d \in DOMAIN calls :
        /\ c.kind = "submitMove" /\ c.pc = "fetchShutterData"
        /\ d.kind = "submitMove" /\ d.pc = "encryptData"
        /\ c.player = d.player

\* C15: in the game, the stored commitment of a player is written at most
\* once: once encryptedMove is set no completion of a submitMove() changes it.
C15_CommitmentWrittenOnce ==
    [][\A p \in Players :
          IsCommitment(players[p].encryptedMove)
            => players'[p].encryptedMove = players[p].encryptedMove]_vars

\* C16: in the game, the move of a slot that has submitted never changes
\* again, and submitted never returns to false.
C16_SubmittedMoveFrozen ==
    [][\A p \in Players :
          players[p].submitted
            => /\ players'[p].submitted
               /\ players'[p].move = players[p].move]_vars

\* a step that calls encryptData
EncryptionIssued ==
    \E c \in DOMAIN calls' :
        /\ c.pc = "encryptData"
        /\ ~c.waited
        /\ CopiesIn(c, calls') > CopiesIn(c, calls)

\* C17: when fetchShutterData fails no commitment is produced: the invocation
\* ends without calling encryptData, encryptedMessage and the players' slots
\* (encryptedMove, submitted) keep their values.
C17_NoCommitmentAfterFailedRegistration ==
    [][\A c \in DOMAIN calls :
          (encryptRegistrationFailed(c) \/ submitMoveRegistrationFailed(c))
            => /\ ~EncryptionIssued
               /\ CopiesIn(c, calls') < CopiesIn(c, calls)
               /\ encryptedMessage' = encryptedMessage
               /\ players' = players]_vars

\* hello-world after an encrypt() whose registration failed: no identity, no
\* commitment, nothing in flight
C17_Witness ==
    /\ app = "hello"
    /\ decryptionTimestamp # Null
    /\ Falsy(identity)
    /\ encryptedMessage = EmptyString
    /\ calls = EmptyBag

\* C18: a failed registration retains no partial state: after the first
\* encrypt() or submitMove() of a session, when its fetchShutterData call
\* fails, release timestamp, countdown, identity, eonKey and commitments have
\* the values they had before the call, those of the initial state.
C18_FailedRegistrationLeavesNoState ==
    [][\A c \in DOMAIN calls :
          /\ (encryptRegistrationFailed(c) /\ invoked = 1)
                => /\ decryptionTimestamp' = Null
                   /\ countdown' = Null
                   /\ identity' = EmptyString
                   /\ encryptedMessage' = EmptyString
          /\ (submitMoveRegistrationFailed(c) /\ invoked = 1)
                => /\ encryptionTimestamp' = Null
                   /\ countdown' = Null
                   /\ identity' = ZeroX
                   /\ eonKey' = ZeroX
                   /\ \A p \in Players : players'[p].encryptedMove = EmptyString]_vars

\* C19: in the game a registration failure is retryable: a submitMove()
\* invoked after the registration has failed (a release timestamp is stored,
\* no identity is, no registration is in flight) registers again.
C19_RegistrationRetried ==
    [][\A p \in Players :
          ( /\ submitMove(p)
            /\ players[p].move # ""
            /\ encryptionTimestamp # Null
            /\ identity = ZeroX
            /\ \A c \in DOMAIN calls : c.pc # "fetchShutterData" )
            => RegistrationIssued]_vars

\* C20: a failure of fetchShutterData or of encryptData during encrypt() or
\* submitMove() is surfaced: the error state is set to a non-empty message.
C20_EncryptionFailureSurfaced ==
    [][\A c \in DOMAIN calls :
          ( \/ encryptRegistrationFailed(c)
            \/ encryptDataFailed(c)
            \/ submitMoveRegistrationFailed(c)
            \/ submitMoveEncryptFailed(c) )
            => error' # ""]_vars

\* C21: every fetchShutterData(t) call passes a release timestamp strictly in
\* the future: in the second a call is made in (it has not waited through a
\* clock step), t is the current second plus DECRYPTION_DELAY, which is greater
\* than the current second.
C21_RegistersFutureTimestamp ==
    \A c \in DOMAIN calls :
        (c.pc = "fetchShutterData" /\ ~c.waited)
          => /\ c.decryptionTimestamp = now + DECRYPTION_DELAY
             /\ c.decryptionTimestamp > now

\* a registration issued after the clock has advanced, still in flight
C21_Witness ==
    \E c \in DOMAIN calls :
        /\ c.pc = "fetchShutterData"
        /\ ~c.waited
        /\ now > 0
        /\ c.decryptionTimestamp = now + DECRYPTION_DELAY

\* C22: in hello-world the stored release timestamp is immutable once a
\* commitment exists: after encryptedMessage is set no step changes
\* decryptionTimestamp.
C22_TimestampFrozenAfterCommitment ==
    [][(app = "hello" /\ IsCommitment(encryptedMessage))
          => decryptionTimestamp' = decryptionTimestamp]_vars

\* C23: sigma is never written to a log or to any observable output: no line
\* that a step writes with console.log carries a value drawn by
\* generateRandomBytes32.
C23_SigmaNeverLogged ==
    \A i \in DOMAIN console : "random" \notin DOMAIN console[i].value

\* the invocations in flight that have called encryptData and await its answer
Encryptions == {c \in DOMAIN calls : c.pc = "encryptData"}

\* C24: each encryptData call consumes its own freshly generated sigma: the
\* sigma a call in flight was given is a value drawn for it, given to no other
\* encryptData call.
C24_OwnFreshSigma ==
    \A c \in Encryptions :
        /\ calls[c] = 1
        /\ c.sigmaHex.random \in 1..Cardinality(Encryptions)
        /\ \A d \in Encryptions : d # c => d.sigmaHex # c.sigmaHex

\* two encryptData calls in flight at the same time
C24_Witness ==
    \E c, d \in Encryptions :
        /\ c.sigmaHex.random = 1
        /\ d.sigmaHex.random = 2
        /\ c.kind = d.kind

\* C25: at every clock tick the countdown that is displayed equals
\* max(0, R - now), R the stored release timestamp and now the second of the
\* tick.
C25_CountdownIsTimeToRelease ==
    [][(now' > now /\ countdown' # Null)
          => LET R == IF app = "hello" THEN decryptionTimestamp'
                                       ELSE encryptionTimestamp'
             IN  countdown' = IF R - now' > 0 THEN R - now' ELSE 0]_vars

\* C26: the countdown never gates decryption: in the game, at a tick with both
\* moves submitted, no result, no reveal in progress and none failed, a reveal
\* attempt is made exactly when the fresh readiness comparison of that second
\* passes, whatever the countdown shows.
C26_RevealGatedByReadinessOnly ==
    [][( /\ app = "game"
         /\ now' > now
         /\ BothSubmitted
         /\ result = ""
         /\ Reveals = {}
         /\ error # DecryptFailedError )
          => ( (\E c \in Reveals' : ~c.waited)
                 <=> isReady(encryptionTimestamp, now') )]_vars

DecryptMessageFailedError == "Failed to decrypt message. Please try again."

\* C27: no dangling timers: at most one interval timer is set at any time,
\* none is set while the countdown is null or 0, and once the component is
\* torn down no timer is left and the clock changes no state.
C27_NoDanglingTimers ==
    /\ timers <= 1
    /\ timers > 0 => TimerActive
    /\ app = "none" => timers = 0 /\ countdown = Null /\ error = "" /\ calls = EmptyBag

\* the component has been torn down before any reveal, after a handler was
\* invoked, and the clock has gone on to the release
C27_Witness ==
    /\ app = "none"
    /\ invoked > 0
    /\ revealed = {}
    /\ now >= DECRYPTION_DELAY

\* C28: the failed state is terminal: once a key-fetch or decryption failure is
\* recorded in the error state and no handler is in flight, no user action and
\* no timer event changes the state any more.
C28_FailedIsTerminal ==
    [][( /\ error \in {DecryptMessageFailedError, DecryptFailedError}
         /\ calls = EmptyBag )
          => UNCHANGED <<helloVars, gameVars, countdown, identity, error, calls>>]_vars

\* C29: in the game, submitMove(player) with no move selected sets the error
\* 'Please select a move for <player>' and does nothing else: it makes no
\* call and leaves encryptionTimestamp, identity, eonKey, both player slots
\* and the countdown unchanged.
C29_MissingMoveOnlySetsError ==
    [][\A p \in Players :
          (submitMove(p) /\ players[p].move = "")
            => /\ error' = IF p = "player1"
                           THEN "Please select a move for player1"
                           ELSE "Please select a move for player2"
               /\ UNCHANGED <<calls, encryptionTimestamp, identity, eonKey,
                              players, countdown>>]_vars

\* player2 has clicked Submit without a move after player1 has submitted one
C29_Witness ==
    /\ error = "Please select a move for player2"
    /\ players.player2.move = ""
    /\ players.player1.submitted
    /\ calls = EmptyBag

\* C30: in hello-world, decrypt() invoked with no stored identity, or before
\* the current second has reached R + 5, makes no network call and leaves
\* encryptedMessage, identity, decryptionTimestamp, countdown and
\* decryptedMessage unchanged; only the error is set.
C30_RejectedDecryptOnlySetsError ==
    [][( /\ decrypt
         /\ (Falsy(identity) \/ ~isReady(decryptionTimestamp, now)) )
          => /\ UNCHANGED <<calls, encryptedMessage, identity, decryptionTimestamp,
                            countdown, decryptedMessage>>
             /\ error' \in {"No identity available. Please encrypt a message first.",
                            NotReadyError}]_vars

\* decrypt() has been rejected for being early, the commitment is in place
C30_Witness ==
    /\ app = "hello"
    /\ error = NotReadyError
    /\ IsCommitment(encryptedMessage)
    /\ ~Falsy(identity)
    /\ decryptedMessage = <<>>
    /\ calls = EmptyBag

\* C31: in the game, decryptMoves() never calls fetchDecryptionKey with an
\* identity that no successful fetchShutterData call has returned: while
\* identity has its initial value it makes no fetch.
C31_RevealFetchesRegisteredIdentity ==
    \A c \in KeyFetches :
        c.kind = "decryptMoves" => Registered(c.identity) /\ c.identity # ZeroX

\* C32: when fetchDecryptionKey or shutterDecrypt fails, the error is set to
\* the fixed message of the component, the decrypted output (decryptedMessage,
\* result) keeps its value, and nothing else of the displayed state changes: no
\* partial plaintext and no key value is placed in it.
C32_DecryptFailureShowsFixedMessage ==
    [][\A c \in DOMAIN calls :
          /\ ( \/ decryptKeyFetchFailed(c)
               \/ (decryptDone(c) /\ ~Decryptable(c.encryptedMessage, c.decryptionKey)) )
                => /\ error' = DecryptMessageFailedError
                   /\ UNCHANGED <<helloVars, gameVars, identity, countdown>>
          /\ ( \/ decryptMovesKeyFetchFailed(c)
               \/ (decryptMovesFirst(c) /\ ~Decryptable(c.encryptedMove1, c.decryptionKey))
               \/ (decryptMovesDone(c) /\ ~Decryptable(c.encryptedMove2, c.decryptionKey)) )
                => /\ error' = DecryptFailedError
                   /\ UNCHANGED <<helloVars, gameVars, identity, countdown>>]_vars

\* hello-world: a decrypt() has failed while the text of an earlier, successful
\* decrypt() is displayed
C32_Witness ==
    /\ app = "hello"
    /\ error = DecryptMessageFailedError
    /\ decryptedMessage # <<>>
    /\ calls = EmptyBag

\* C33: in hello-world, whenever identity and encryptedMessage are both
\* non-empty, encryptedMessage was made by encrypting under that identity,
\* whatever the interleaving of the encrypt() invocations.
C33_CommitmentMatchesIdentity ==
    (app = "hello" /\ ~Falsy(identity) /\ IsCommitment(encryptedMessage))
        => encryptedMessage.identity = identity

\* C34: in hello-world, whenever decryptedMessage is non-empty it is the
\* plaintext of the encryptedMessage that is stored, and the stored release
\* timestamp plus 5 seconds has elapsed.
C34_DecryptedIsOfStoredCommitment ==
    (app = "hello" /\ decryptedMessage # <<>>)
        => /\ IsCommitment(encryptedMessage)
           /\ decryptedMessage = hexToString(encryptedMessage.msg)
           /\ isReady(decryptionTimestamp, now)

\* C35: in the game, the countdown is started once and from then on only
\* decreases: no later step, in particular no later completion of a
\* submitMove(), sets it back to a greater value.
C35_CountdownStartedOnce ==
    [][(app = "game" /\ countdown # Null)
          => countdown' # Null /\ countdown' <= countdown]_vars

====
